---- MODULE Spec2Model ----
(***************************************************************************)
(* Model of the agent-development-kit samples: the text tools of the       *)
(* sequential workflow (extract_data, validate_data, format_data), the     *)
(* sequential pipeline and the parallel aggregator built from them, and    *)
(* the demo / interactive callers that drive them.                         *)
(*                                                                         *)
(* Text is a sequence of one-character strings, so that split, strip,      *)
(* lower, isupper and substring search are computed as Python computes     *)
(* them.  A Python dict is a record; a missing key is a missing field.      *)
(***************************************************************************)
EXTENDS Integers, Sequences, FiniteSets, TLC

VARIABLES
    mode,               \* which specification is running: "tools" or "run"
    input_text,         \* the text handed to extract_data
    now,                \* datetime.now(): a clock that every call advances
    pc,                 \* position of the harness / of the caller
    extraction_result,  \* result of extract_data
    extraction_again,   \* result of running extract_data a second time
    validator_input,    \* the mapping handed to validate_data
    validation_result,  \* result of validate_data
    validation_again,   \* result of running validate_data a second time
    formatter_input,    \* the mapping handed to format_data
    final_result,       \* result of format_data
    final_again,        \* result of running format_data a second time
    caller,             \* the function that drives a composite
    config_valid,       \* what validate_config() answers in this environment
    construction,       \* what create_...() returned or raised
    session_manager,    \* ADKSessionManager(...) of the caller
    runner,             \* session_manager.create_runner(...)
    query_no,           \* number of run_query calls issued
    lines_read,         \* number of lines the interactive loop has read
    composite_state,    \* state of the composite inside run_query
    steps_run,          \* names of the agents that have run in this query
    branch,             \* state of each parallel branch in this query
    context,            \* the result mapping: output key -> result
    writes,             \* every write to the result mapping: <<agent, key>>
    response,           \* what run_query handed back to the caller
    line_read,          \* the line input() returned to the interactive loop
    user_input,         \* that line, stripped
    caught,             \* the exception the caller's try has caught
    script,             \* the runner script whose main() runs, or "none"
    choice,             \* the stripped answer to the menu prompt
    runs                \* the functions main() has called, in order

toolVars == <<input_text, now, extraction_result, extraction_again,
              validator_input, validation_result, validation_again,
              formatter_input, final_result, final_again>>

runVars == <<caller, config_valid, construction, session_manager, runner,
             query_no, lines_read, composite_state, steps_run, branch,
             context, writes, response, line_read, user_input, caught,
             script, choice, runs>>

\* the state of the iteration of the interactive loop
loopVars == <<line_read, user_input, caught>>

\* the state of main()
mainVars == <<script, choice, runs>>

vars == <<mode, pc, toolVars, runVars>>

----------------------------------------------------------------------------
(* Bounds of the model *)

\* texts are built from at most MaxWords words of Vocabulary
MaxWords == 5

----------------------------------------------------------------------------
(* Characters and strings *)

Whitespace == {" ", "\t", "\n"}

UpperLetters == <<"A","B","C","D","E","F","G","H","I","J","K","L","M",
                  "N","O","P","Q","R","S","T","U","V","W","X","Y","Z">>
LowerLetters == <<"a","b","c","d","e","f","g","h","i","j","k","l","m",
                  "n","o","p","q","r","s","t","u","v","w","x","y","z">>
Digits == {"0","1","2","3","4","5","6","7","8","9"}

\* str.isupper() of a one-character string
isupper(c) == \E i \in 1..Len(UpperLetters) : UpperLetters[i] = c

lower_char(c) ==
    IF isupper(c)
    THEN LowerLetters[CHOOSE i \in 1..Len(UpperLetters) : UpperLetters[i] = c]
    ELSE c

\* str.lower()
lower(s) == [i \in 1..Len(s) |-> lower_char(s[i])]

\* the characters word.strip('.,!?') removes from both ends
StripChars == {".", ",", "!", "?"}

RECURSIVE lstrip(_, _)
lstrip(s, chars) ==
    IF s = <<>> THEN s
    ELSE IF s[1] \in chars THEN lstrip(Tail(s), chars) ELSE s

RECURSIVE rstrip(_, _)
rstrip(s, chars) ==
    IF s = <<>> THEN s
    ELSE IF s[Len(s)] \in chars THEN rstrip(SubSeq(s, 1, Len(s) - 1), chars) ELSE s

\* word.strip('.,!?')
strip(s) == rstrip(lstrip(s, StripChars), StripChars)

\* line.strip()
strip_whitespace(s) == rstrip(lstrip(s, Whitespace), Whitespace)

\* the step of str.split(' '): every single separator ends a word, so that
\* leading, trailing and repeated separators give empty words
RECURSIVE split_single_space_from(_, _, _, _)
split_single_space_from(s, i, cur, acc) ==
    IF i > Len(s) THEN Append(acc, cur)
    ELSE IF s[i] \in Whitespace
         THEN split_single_space_from(s, i + 1, <<>>, Append(acc, cur))
         ELSE split_single_space_from(s, i + 1, Append(cur, s[i]), acc)

\* the step of str.split(): runs of whitespace separate words, and no word
\* is empty
RECURSIVE split_from(_, _, _, _)
split_from(s, i, cur, acc) ==
    IF i > Len(s) THEN (IF cur = <<>> THEN acc ELSE Append(acc, cur))
    ELSE IF s[i] \in Whitespace
         THEN split_from(s, i + 1, <<>>, IF cur = <<>> THEN acc ELSE Append(acc, cur))
         ELSE split_from(s, i + 1, Append(cur, s[i]), acc)

split_single_space(s) == split_single_space_from(s, 1, <<>>, <<>>)

\* input_text.split()
split(s) == split_from(s, 1, <<>>, <<>>)

\* needle in hay
Contains(hay, needle) ==
    \E i \in 1..(Len(hay) - Len(needle) + 1) :
        SubSeq(hay, i, i + Len(needle) - 1) = needle

\* seq[:n]
Take(seq, n) == SubSeq(seq, 1, IF Len(seq) < n THEN Len(seq) ELSE n)

\* end of the maximal run of digits of s that starts at i (i - 1 when none)
RECURSIVE digits_end(_, _)
digits_end(s, i) ==
    IF i <= Len(s) /\ s[i] \in Digits THEN digits_end(s, i + 1) ELSE i - 1

\* re.findall(r'\d+(?:\.\d+)?', s): leftmost, non-overlapping matches
RECURSIVE findall_numbers_from(_, _, _)
findall_numbers_from(s, i, acc) ==
    IF i > Len(s) THEN acc
    ELSE IF s[i] \notin Digits THEN findall_numbers_from(s, i + 1, acc)
    ELSE LET e  == digits_end(s, i)
             e2 == IF e + 1 <= Len(s) /\ s[e + 1] = "." /\ digits_end(s, e + 2) >= e + 2
                   THEN digits_end(s, e + 2)
                   ELSE e
         IN  findall_numbers_from(s, e2 + 1, Append(acc, SubSeq(s, i, e2)))

findall_numbers(s) == findall_numbers_from(s, 1, <<>>)

\* dict.get(key, default)
Get(m, key, default) == IF key \in DOMAIN m THEN m[key] ELSE default

----------------------------------------------------------------------------
(* extract_data *)

BusinessTerms ==
    << <<"s","a","l","e","s">>, <<"r","e","v","e","n","u","e">>,
       <<"p","r","o","f","i","t">>, <<"b","u","s","i","n","e","s","s">> >>
FeedbackTerms ==
    << <<"c","u","s","t","o","m","e","r">>, <<"f","e","e","d","b","a","c","k">>,
       <<"r","e","v","i","e","w">>,
       <<"s","a","t","i","s","f","a","c","t","i","o","n">> >>
ProductTerms ==
    << <<"p","r","o","d","u","c","t">>, <<"l","a","u","n","c","h">>,
       <<"f","e","a","t","u","r","e">>,
       <<"d","e","v","e","l","o","p","m","e","n","t">> >>

\* any(word.lower() in input_text.lower() for word in terms)
any_term_in(terms, text) ==
    \E k \in 1..Len(terms) : Contains(lower(text), lower(terms[k]))

\* the product group tested before the feedback group
content_type_of_product_first(text) ==
    IF any_term_in(BusinessTerms, text) THEN "business"
    ELSE IF any_term_in(ProductTerms, text) THEN "product"
    ELSE IF any_term_in(FeedbackTerms, text) THEN "customer_feedback"
    ELSE "general"

content_type_of(text) ==
    IF any_term_in(BusinessTerms, text) THEN "business"
    ELSE IF any_term_in(FeedbackTerms, text) THEN "customer_feedback"
    ELSE IF any_term_in(ProductTerms, text) THEN "product"
    ELSE "general"

\* a word is a keyword when it is longer than KeywordMinLen characters
KeywordMinLen == 4
\* entities[:EntityLimit], keywords[:KeywordLimit], keywords[:KeyElementKeywords]
EntityLimit == 5
KeywordLimit == 10
KeyElementKeywords == 3

is_entity_word(word) == isupper(word[1]) /\ Len(word) > 1
is_keyword_word(word) == Len(word) > KeywordMinLen

entities_of(words) ==
    LET sel == SelectSeq(words, is_entity_word)
    IN  [i \in 1..Len(sel) |-> strip(sel[i])]

keywords_of(words) ==
    LET sel == SelectSeq(words, is_keyword_word)
    IN  [i \in 1..Len(sel) |-> strip(lower(sel[i]))]

\* what a call that raised leaves behind: no result, an exception
Raised(exception) == [status |-> "raised", exception |-> exception]

extract_data_words(input_text_, words, t) ==
    IF \E i \in 1..Len(words) : Len(words[i]) = 0
    THEN Raised("IndexError")    \* word[0] of an empty word
    ELSE
    LET entities == entities_of(words)
        keywords == keywords_of(words)
        ctype    == content_type_of(input_text_)
    IN  [ status               |-> "success",
          original_text        |-> input_text_,
          word_count           |-> Len(words),
          character_count      |-> Len(input_text_),
          entities             |-> Take(entities, EntityLimit),
          numbers              |-> findall_numbers(input_text_),
          keywords             |-> Take(keywords, KeywordLimit),
          content_type         |-> ctype,
          extraction_timestamp |-> t,
          extracted_data       |-> [ text         |-> input_text_,
                                     length       |-> Len(input_text_),
                                     type         |-> ctype,
                                     key_elements |-> entities \o Take(keywords, KeyElementKeywords) ] ]

\* word_count kept in a counter that outlives the call
extract_data_counting(input_text_, t) ==
    LET result == extract_data_words(input_text_, split(input_text_), t)
    IN  IF "word_count" \in DOMAIN result
        THEN [result EXCEPT !.word_count = @ + t]
        ELSE result

extract_data(input_text_, t) == extract_data_words(input_text_, split(input_text_), t)

----------------------------------------------------------------------------
(* validate_data *)

\* Rule 1: minimum length of the text
MinLength == 10
\* Rule 4: reasonable word count
MinWordCount == 5
MaxWordCount == 1000
\* every rule that passes adds RuleScore to the quality score
RuleScore == 25
\* is_valid: minimum 50% quality
MinQuality == 50

TooShortError == "Text too short (minimum 10 characters)"
NoKeyElementsError == "No key elements identified"
GenericTypeError == "Generic content type"
NoExtractedDataError == "No extracted_data found"
word_count_error(word_count) == "Word count out of range: " \o ToString(word_count)

length_rule_nine(data) == Get(data, "length", 0) >= MinLength - 1

length_rule(data) == Get(data, "length", 0) >= MinLength

key_elements_rule(data) ==
    "key_elements" \in DOMAIN data /\ Len(data.key_elements) > 0

content_type_rule(data) ==
    "type" \notin DOMAIN data \/ data.type # "general"

word_count_rule_exclusive(word_count) ==
    MinWordCount < word_count /\ word_count < MaxWordCount

word_count_rule(word_count) ==
    MinWordCount <= word_count /\ word_count <= MaxWordCount

\* what a rule adds to quality_score
rule_score(passed) == IF passed THEN RuleScore ELSE 0

\* what a rule adds to validation_errors
\* a rule that fails without recording its error
rule_error_silent(passed, message) == <<>>

rule_error(passed, message) == IF passed THEN <<>> ELSE <<message>>

validate_data(extracted_data, t) ==
    IF "extracted_data" \notin DOMAIN extracted_data
    THEN [ status               |-> "error",
           is_valid             |-> FALSE,
           validation_errors    |-> <<NoExtractedDataError>>,
           quality_score        |-> 0,
           validation_timestamp |-> t ]
    ELSE
    LET data       == extracted_data.extracted_data
        word_count == Get(extracted_data, "word_count", 0)
        r1 == length_rule(data)
        r2 == key_elements_rule(data)
        r3 == content_type_rule(data)
        r4 == word_count_rule(word_count)
        quality_score == rule_score(r1) + rule_score(r2) + rule_score(r3) + rule_score(r4)
    IN  [ status               |-> "success",
          is_valid             |-> quality_score >= MinQuality,
          validation_errors    |-> rule_error(r1, TooShortError)
                                   \o rule_error(r2, NoKeyElementsError)
                                   \o rule_error(r3, GenericTypeError)
                                   \o rule_error(r4, word_count_error(word_count)),
          quality_score        |-> quality_score,
          validation_timestamp |-> t,
          validated_data       |-> data,
          original_extraction  |-> extracted_data ]

----------------------------------------------------------------------------
(* format_data *)

\* grade "A" from GradeAScore, "B" from GradeBScore, "C" below
GradeAScore == 75
GradeBScore == 50

grade_of_exclusive(quality_score) ==
    IF quality_score > GradeAScore THEN "A"
    ELSE IF quality_score > GradeBScore THEN "B"
    ELSE "C"

grade_of(quality_score) ==
    IF quality_score >= GradeAScore THEN "A"
    ELSE IF quality_score >= GradeBScore THEN "B"
    ELSE "C"

summary_of(is_valid, validated_data, quality_score) ==
    IF is_valid
    THEN "Successfully processed " \o Get(validated_data, "type", "general")
         \o " content with " \o ToString(quality_score) \o "% quality score."
    ELSE "Processed content with quality issues (score: "
         \o ToString(quality_score) \o "%)."

FormatError == "Cannot format invalid data"

\* the early return of format_data: the upstream result is not a success
format_rejects_nothing(validation_result_) == FALSE

format_rejects(validation_result_) ==
    Get(validation_result_, "status", "None") # "success"

format_data(validation_result_, t) ==
    IF format_rejects(validation_result_)
    THEN [ status         |-> "error",
           error          |-> FormatError,
           original_error |-> validation_result_ ]
    ELSE
    LET validated_data == Get(validation_result_, "validated_data", <<>>)
        quality_score  == Get(validation_result_, "quality_score", 0)
        is_valid       == Get(validation_result_, "is_valid", FALSE)
    IN  [ status              |-> "success",
          processing_complete |-> TRUE,
          final_result        |->
            [ content  |-> [ original_text |-> Get(validated_data, "text", <<>>),
                             content_type  |-> Get(validated_data, "type", "unknown"),
                             key_elements  |-> Get(validated_data, "key_elements", <<>>),
                             length        |-> Get(validated_data, "length", 0) ],
              quality  |-> [ score    |-> quality_score,
                             is_valid |-> is_valid,
                             grade    |-> grade_of(quality_score) ],
              metadata |-> [ processed_at     |-> t,
                             pipeline_version |-> "1.0",
                             processing_steps |-> <<"extraction", "validation", "formatting">> ] ],
          summary             |-> summary_of(is_valid, validated_data, quality_score),
          validation_errors   |-> Get(validation_result_, "validation_errors", <<>>) ]

----------------------------------------------------------------------------
(* Input texts *)

Vocabulary ==
    { <<"S","a","l","e","s">>,           \* capitalized, a keyword, a business term
      <<"r","e","v","i","e","w",".">>,   \* a keyword, a feedback term, punctuation
      <<"A">>,                           \* capitalized, one character
      <<"U","p">> }                      \* capitalized, not a keyword

join_word(text, word) == IF text = <<>> THEN word ELSE text \o <<" ">> \o word

RECURSIVE TextsOf(_)
TextsOf(n) ==
    IF n = 0 THEN { <<>> }
    ELSE LET shorter == TextsOf(n - 1)
         IN  shorter \cup { join_word(text, word) : text \in shorter, word \in Vocabulary }

\* texts with leading, trailing and repeated whitespace, texts with numbers,
\* the demo's "Short text", and texts with terms of one or several groups
SpecialTexts ==
    { <<" ">>,
      <<"S","a","l","e","s"," ","2",".","5">>,
      <<" ","S","a","l","e","s"," ","2",".","5">>,
      <<"2","5","%"," ","1","2",".","3","4",".","5"," ","x","7",".">>,
      <<"S","a","l","e","s"," "," ","U","p","\n">>,
      <<"S","h","o","r","t"," ","t","e","x","t">>,
      <<"l","a","u","n","c","h">>,
      <<"N","e","w"," ","f","e","a","t","u","r","e">>,
      <<"l","a","u","n","c","h"," ","r","e","v","i","e","w">>,
      <<"P","r","o","d","u","c","t"," ","f","e","e","d","b","a","c","k"," ","S","A","L","E","S">>,
      <<"c","u","s","t","o","m","e","r"," ","l","a","u","n","c","h">>,
      <<"p","r","e","s","a","l","e","s">> }

Texts == TextsOf(MaxWords) \cup SpecialTexts

----------------------------------------------------------------------------
(* The tools called one after the other on one text, each stage once and   *)
(* then once more on the same input                                        *)

NoResult == [status |-> "none"]

has_status(result, status) == Get(result, "status", "None") = status

InitTools ==
    /\ mode = "tools"
    /\ input_text \in Texts
    /\ now = 0
    /\ pc = "input"
    /\ extraction_result = NoResult
    /\ extraction_again = NoResult
    /\ validator_input = NoResult
    /\ validation_result = NoResult
    /\ validation_again = NoResult
    /\ formatter_input = NoResult
    /\ final_result = NoResult
    /\ final_again = NoResult
    /\ caller = "none"
    /\ config_valid = TRUE
    /\ construction = NoResult
    /\ session_manager = "none"
    /\ runner = "none"
    /\ query_no = 0
    /\ lines_read = 0
    /\ composite_state = "pending"
    /\ steps_run = <<>>
    /\ branch = <<>>
    /\ context = <<>>
    /\ writes = <<>>
    /\ response = NoResult
    /\ line_read = <<>>
    /\ user_input = <<>>
    /\ caught = "none"
    /\ script = "none"
    /\ choice = <<>>
    /\ runs = <<>>

CallExtract ==
    /\ mode = "tools" /\ pc = "input"
    /\ extraction_result' = extract_data(input_text, now)
    /\ now' = now + 1
    /\ pc' = "extracted"
    /\ UNCHANGED <<runVars, mode, input_text, extraction_again, validator_input,
                   validation_result, validation_again, formatter_input,
                   final_result, final_again>>

CallExtractAgain ==
    /\ mode = "tools" /\ pc = "extracted"
    /\ extraction_again' = extract_data(input_text, now)
    /\ now' = now + 1
    /\ pc' = "extracted_again"
    /\ UNCHANGED <<runVars, mode, input_text, extraction_result, validator_input,
                   validation_result, validation_again, formatter_input,
                   final_result, final_again>>

\* validate_data is handed the extraction result, or a mapping without the
\* key 'extracted_data' (the inner mapping of the extraction result)
CallValidateWith(arg) ==
    /\ validator_input' = arg
    /\ validation_result' = validate_data(arg, now)
    /\ now' = now + 1
    /\ pc' = "validated"
    /\ UNCHANGED <<runVars, mode, input_text, extraction_result, extraction_again,
                   validation_again, formatter_input, final_result, final_again>>

CallValidate ==
    /\ mode = "tools" /\ pc = "extracted"
    /\ has_status(extraction_result, "success")
    /\ \/ CallValidateWith(extraction_result)
       \/ CallValidateWith(extraction_result.extracted_data)

CallValidateAgain ==
    /\ mode = "tools" /\ pc = "validated"
    /\ validation_again' = validate_data(validator_input, now)
    /\ now' = now + 1
    /\ pc' = "validated_again"
    /\ UNCHANGED <<runVars, mode, input_text, extraction_result, extraction_again,
                   validator_input, validation_result, formatter_input,
                   final_result, final_again>>

\* format_data is handed the validation result, or a mapping without a
\* status (the validated_data of the validation result)
CallFormatWith(arg) ==
    /\ formatter_input' = arg
    /\ final_result' = format_data(arg, now)
    /\ now' = now + 1
    /\ pc' = "formatted"
    /\ UNCHANGED <<runVars, mode, input_text, extraction_result, extraction_again,
                   validator_input, validation_result, validation_again,
                   final_again>>

CallFormat ==
    /\ mode = "tools" /\ pc = "validated"
    /\ \/ CallFormatWith(validation_result)
       \/ /\ "validated_data" \in DOMAIN validation_result
          /\ CallFormatWith(validation_result.validated_data)

CallFormatAgain ==
    /\ mode = "tools" /\ pc = "formatted"
    /\ final_again' = format_data(formatter_input, now)
    /\ now' = now + 1
    /\ pc' = "formatted_again"
    /\ UNCHANGED <<runVars, mode, input_text, extraction_result, extraction_again,
                   validator_input, validation_result, validation_again,
                   formatter_input, final_result>>

NextTools ==
    \/ CallExtract
    \/ CallExtractAgain
    \/ CallValidate
    \/ CallValidateAgain
    \/ CallFormat
    \/ CallFormatAgain

SpecTools == InitTools /\ [][NextTools]_vars

----------------------------------------------------------------------------
(* Claims about the tools *)

\* validate_data has run on a result of extract_data
ValidatedExtraction ==
    /\ mode = "tools"
    /\ pc \in {"validated", "validated_again", "formatted", "formatted_again"}
    /\ "extracted_data" \in DOMAIN validator_input

\* validate_data has run on a mapping without the key 'extracted_data'
ValidatedWithoutData ==
    /\ mode = "tools"
    /\ pc \in {"validated", "validated_again", "formatted", "formatted_again"}
    /\ "extracted_data" \notin DOMAIN validator_input

InSeq(x, seq) == \E i \in 1..Len(seq) : seq[i] = x

ShortText == Len(input_text) < MinLength

\* what the rules other than the length rule add to the quality score
OtherRulesScore ==
    rule_score(key_elements_rule(validator_input.extracted_data))
    + rule_score(content_type_rule(validator_input.extracted_data))
    + rule_score(word_count_rule(validator_input.word_count))

\* C1 (as stated): for every input text shorter than 10 characters,
\* extract_data then validate_data yields is_valid = false, the 'Text too
\* short (minimum 10 characters)' error, and nothing from the length rule in
\* quality_score.
C1_ShortTextIsInvalid ==
    (ValidatedExtraction /\ ShortText) =>
        /\ validation_result.is_valid = FALSE
        /\ InSeq(TooShortError, validation_result.validation_errors)
        /\ validation_result.quality_score = OtherRulesScore

\* C1 (amended): for every input text shorter than 10 characters,
\* extract_data then validate_data yields the 'Text too short (minimum 10
\* characters)' error and nothing from the length rule in quality_score,
\* which is at most 50; is_valid is false unless the text has a key element
\* and a recognized domain term, and then quality_score = 50 and is_valid is
\* true.
C1_ShortTextScored ==
    (ValidatedExtraction /\ ShortText) =>
        /\ InSeq(TooShortError, validation_result.validation_errors)
        /\ validation_result.quality_score = OtherRulesScore
        /\ validation_result.quality_score <= MinQuality
        /\ validation_result.is_valid =
              (/\ Len(validator_input.extracted_data.key_elements) > 0
               /\ any_term_in(BusinessTerms \o FeedbackTerms \o ProductTerms, input_text))
        /\ validation_result.is_valid => validation_result.quality_score = MinQuality

\* C1 witness: a text shorter than 10 characters with a key element and a
\* domain term has been validated, and is valid with a score of 50
C1_Witness ==
    /\ ValidatedExtraction /\ ShortText
    /\ pc = "validated"
    /\ validation_result.is_valid = TRUE
    /\ validation_result.quality_score = 50
    /\ InSeq(TooShortError, validation_result.validation_errors)

HasCapitalizedToken(text) ==
    \E i \in 1..Len(split(text)) : isupper(split(text)[i][1])

HasLongWord(text) ==
    \E i \in 1..Len(split(text)) : Len(split(text)[i]) > 4

HasDomainTerm(text) ==
    \E term \in { <<"s","a","l","e","s">>, <<"r","e","v","e","n","u","e">>,
                  <<"p","r","o","f","i","t">>, <<"b","u","s","i","n","e","s","s">>,
                  <<"c","u","s","t","o","m","e","r">>, <<"f","e","e","d","b","a","c","k">>,
                  <<"r","e","v","i","e","w">>,
                  <<"s","a","t","i","s","f","a","c","t","i","o","n">>,
                  <<"p","r","o","d","u","c","t">>, <<"l","a","u","n","c","h">>,
                  <<"f","e","a","t","u","r","e">>,
                  <<"d","e","v","e","l","o","p","m","e","n","t">> } :
        Contains(lower(text), term)

GoodText ==
    /\ HasCapitalizedToken(input_text)
    /\ HasLongWord(input_text)
    /\ HasDomainTerm(input_text)
    /\ 5 <= Len(split(input_text)) /\ Len(split(input_text)) <= 1000

\* C2: for every input text with a capitalized token, a word longer than 4
\* characters, a recognized domain term and 5 to 1000 words, validate_data
\* applied to extract_data's result yields quality_score = 100, is_valid =
\* true and no validation errors.
C2_GoodTextScoresFull ==
    (ValidatedExtraction /\ GoodText) =>
        /\ validation_result.quality_score = 100
        /\ validation_result.is_valid = TRUE
        /\ validation_result.validation_errors = <<>>

\* C2 witness: a text of exactly 5 words that meets the four conditions has
\* been validated with the full score
C2_Witness ==
    /\ ValidatedExtraction /\ GoodText
    /\ pc = "validated"
    /\ Len(split(input_text)) = 5
    /\ validation_result.quality_score = 100

\* C5: the tools report failure in-band and do not raise: extract_data
\* returns status success for every string (the empty string included);
\* validate_data given a mapping without 'extracted_data' returns status
\* error, is_valid false, validation_errors = ['No extracted_data found'] and
\* no computed score; format_data given a mapping whose status is not
\* 'success' returns status error with the input unchanged under
\* 'original_error'.
C5_FailureInBand ==
    mode = "tools" =>
        /\ pc # "input" => has_status(extraction_result, "success")
        /\ ValidatedWithoutData =>
              /\ validation_result.status = "error"
              /\ validation_result.is_valid = FALSE
              /\ validation_result.validation_errors = <<"No extracted_data found">>
              /\ validation_result.quality_score = 0
              /\ DOMAIN validation_result =
                    {"status", "is_valid", "validation_errors", "quality_score",
                     "validation_timestamp"}
        /\ (pc \in {"formatted", "formatted_again"}
            /\ ~has_status(formatter_input, "success")) =>
              /\ final_result.status = "error"
              /\ final_result.original_error = formatter_input
              /\ DOMAIN final_result = {"status", "error", "original_error"}

\* C5 witness: the three cases in one run: the empty string was extracted
\* with success, validate_data was handed a mapping without 'extracted_data'
\* and format_data then received its error result
C5_Witness ==
    /\ mode = "tools" /\ pc = "formatted"
    /\ input_text = <<>>
    /\ has_status(extraction_result, "success")
    /\ ValidatedWithoutData
    /\ has_status(validation_result, "error")
    /\ has_status(final_result, "error")

\* a result without its timestamp fields
WithoutTimestamps(result) ==
    IF "extraction_timestamp" \in DOMAIN result
    THEN [result EXCEPT !.extraction_timestamp = 0]
    ELSE IF "validation_timestamp" \in DOMAIN result
    THEN [result EXCEPT !.validation_timestamp = 0]
    ELSE IF "final_result" \in DOMAIN result
    THEN [result EXCEPT !.final_result.metadata.processed_at = 0]
    ELSE result

ShortTextDemo == <<"S","h","o","r","t"," ","t","e","x","t">>

\* C13: every result of validate_data that reaches the scoring rules has a
\* quality_score among 0, 25, 50, 75, 100 that equals 25 * (4 - number of
\* validation_errors); its status is 'success' whatever the score; is_valid
\* is true exactly when quality_score >= 50, that is when at most two of
\* the four rules fail.  The demo's 'Short text' has validation errors.
C13_ScoreCountsPassedRules ==
    ValidatedExtraction =>
        /\ validation_result.quality_score \in {0, 25, 50, 75, 100}
        /\ validation_result.quality_score
              = 25 * (4 - Len(validation_result.validation_errors))
        /\ validation_result.status = "success"
        /\ validation_result.is_valid = (validation_result.quality_score >= 50)
        /\ validation_result.is_valid = (Len(validation_result.validation_errors) <= 2)
        /\ input_text = ShortTextDemo => validation_result.validation_errors # <<>>

\* C13 witness: 'Short text' has been validated: two rules fail, the score
\* is 50, the status success and the result valid
C13_Witness ==
    /\ ValidatedExtraction /\ pc = "validated"
    /\ input_text = ShortTextDemo
    /\ Len(validation_result.validation_errors) = 2
    /\ validation_result.quality_score = 50
    /\ validation_result.is_valid = TRUE

\* format_data has run on a validation result with status success
FormattedValidation ==
    /\ mode = "tools"
    /\ pc \in {"formatted", "formatted_again"}
    /\ has_status(formatter_input, "success")

\* C14: for every validation result with status 'success', format_data
\* returns status 'success' with processing_complete = true, also when
\* is_valid is false; the grade is 'A' from a score of 75, 'B' from 50 to
\* below 75 and 'C' otherwise; is_valid is true exactly when the grade is
\* 'A' or 'B'; the summary is the 'Successfully processed ...' sentence
\* exactly when is_valid is true; score, is_valid and validation_errors are
\* those of the validation result.
C14_FormatsEveryValidation ==
    FormattedValidation =>
        LET quality == final_result.final_result.quality
            score   == formatter_input.quality_score
        IN  /\ final_result.status = "success"
            /\ final_result.processing_complete = TRUE
            /\ quality.grade = (IF score >= 75 THEN "A"
                                ELSE IF score >= 50 /\ score < 75 THEN "B"
                                ELSE "C")
            /\ formatter_input.is_valid = (quality.grade \in {"A", "B"})
            /\ IF formatter_input.is_valid
               THEN final_result.summary =
                      "Successfully processed " \o formatter_input.validated_data.type
                      \o " content with " \o ToString(score) \o "% quality score."
               ELSE final_result.summary =
                      "Processed content with quality issues (score: "
                      \o ToString(score) \o "%)."
            /\ quality.score = score
            /\ quality.is_valid = formatter_input.is_valid
            /\ final_result.validation_errors = formatter_input.validation_errors

\* C14 witness: an invalid validation result (score below 50) has been
\* formatted with status success and grade 'C'
C14_Witness ==
    /\ FormattedValidation /\ pc = "formatted"
    /\ formatter_input.is_valid = FALSE
    /\ final_result.status = "success"
    /\ final_result.final_result.quality.grade = "C"

\* C14 second case: a score of exactly 75 is graded 'A'
C14_GradeABoundary ==
    /\ FormattedValidation
    /\ formatter_input.quality_score = 75
    /\ final_result.final_result.quality.grade = "A"

\* the text contains, whatever the case, one of the terms
HasTerm(text, terms) == \E term \in terms : Contains(lower(text), term)

BusinessGroup ==
    { <<"s","a","l","e","s">>, <<"r","e","v","e","n","u","e">>,
      <<"p","r","o","f","i","t">>, <<"b","u","s","i","n","e","s","s">> }
FeedbackGroup ==
    { <<"c","u","s","t","o","m","e","r">>, <<"f","e","e","d","b","a","c","k">>,
      <<"r","e","v","i","e","w">>,
      <<"s","a","t","i","s","f","a","c","t","i","o","n">> }
ProductGroup ==
    { <<"p","r","o","d","u","c","t">>, <<"l","a","u","n","c","h">>,
      <<"f","e","a","t","u","r","e">>,
      <<"d","e","v","e","l","o","p","m","e","n","t">> }

\* C15: extract_data classifies by a fixed priority over case-insensitive
\* substring matches: 'business' if a business term occurs; otherwise
\* 'customer_feedback' if a feedback term occurs; otherwise 'product' if a
\* product term occurs; otherwise 'general'; and content_type always equals
\* extracted_data.type.
C15_ContentTypePriority ==
    (mode = "tools" /\ pc # "input" /\ has_status(extraction_result, "success")) =>
        /\ HasTerm(input_text, BusinessGroup) =>
              extraction_result.content_type = "business"
        /\ (~HasTerm(input_text, BusinessGroup) /\ HasTerm(input_text, FeedbackGroup)) =>
              extraction_result.content_type = "customer_feedback"
        /\ (/\ ~HasTerm(input_text, BusinessGroup)
            /\ ~HasTerm(input_text, FeedbackGroup)
            /\ HasTerm(input_text, ProductGroup)) =>
              extraction_result.content_type = "product"
        /\ (/\ ~HasTerm(input_text, BusinessGroup)
            /\ ~HasTerm(input_text, FeedbackGroup)
            /\ ~HasTerm(input_text, ProductGroup)) =>
              extraction_result.content_type = "general"
        /\ extraction_result.content_type = extraction_result.extracted_data.type

\* C15 witness: a text with a product term and a feedback term, and no
\* business term, has been classified customer_feedback
C15_Witness ==
    /\ mode = "tools" /\ pc = "extracted"
    /\ HasTerm(input_text, ProductGroup)
    /\ HasTerm(input_text, FeedbackGroup)
    /\ ~HasTerm(input_text, BusinessGroup)
    /\ extraction_result.content_type = "customer_feedback"
    /\ extraction_result.extracted_data.type = "customer_feedback"

----------------------------------------------------------------------------
(* The composites and their agents *)

\* the three LlmAgents of create_data_pipeline, with the tool each calls
PipelineAgents_shared_key ==
    << [name |-> "data_extractor", tool |-> "extract_data",
        output_key |-> "extraction_result"],
       [name |-> "data_validator", tool |-> "validate_data",
        output_key |-> "validation_result"],
       [name |-> "data_formatter", tool |-> "format_data",
        output_key |-> "validation_result"] >>

PipelineAgents ==
    << [name |-> "data_extractor", tool |-> "extract_data",
        output_key |-> "extraction_result"],
       [name |-> "data_validator", tool |-> "validate_data",
        output_key |-> "validation_result"],
       [name |-> "data_formatter", tool |-> "format_data",
        output_key |-> "final_result"] >>

\* sub_agents=[extractor_agent, validator_agent, formatter_agent]
PipelineSubAgents == PipelineAgents

\* create_data_pipeline(): what it returns or raises, and the agents it has
\* built by then
create_data_pipeline(config_valid_) ==
    IF ~config_valid_
    THEN [ status |-> "raised", exception |-> "ValueError", agents_built |-> <<>> ]
    ELSE [ status |-> "built", kind |-> "sequential",
           name |-> "data_processing_pipeline",
           agents_built |-> PipelineAgents, sub_agents |-> PipelineSubAgents ]

\* the mapping an agent may hand to its tool instead of the previous result:
\* the part of it named like the tool's subject
inner_key(tool) ==
    IF tool = "validate_data" THEN "extracted_data" ELSE "validated_data"

\* the agent calls its one tool
apply_tool(tool, arg, t) ==
    IF tool = "extract_data" THEN extract_data(arg, t)
    ELSE IF tool = "validate_data" THEN validate_data(arg, t)
    ELSE format_data(arg, t)

\* the result mapping with `result` stored under `key`
store(mapping, key, result) ==
    [k \in DOMAIN mapping \cup {key} |-> IF k = key THEN result ELSE mapping[k]]

----------------------------------------------------------------------------
(* The tools of the parallel aggregator.  Every random draw of a call is    *)
(* taken at the low or at the high end of its range; amounts of money and  *)
(* seconds are counted in hundredths.                                      *)

RandomDraws == {"low", "high"}

pick(draw, low, high) == IF draw = "low" THEN low ELSE high

two_digits(n) == IF n < 10 THEN "0" \o ToString(n) ELSE ToString(n)

\* f"{x:.2f}" of x >= 0, x given in hundredths
fixed2(hundredths) ==
    ToString(hundredths \div 100) \o "." \o two_digits(hundredths % 100)

\* f"{x:+.2f}", x given in hundredths
signed_fixed2(hundredths) ==
    IF hundredths < 0 THEN "-" \o fixed2(0 - hundredths) ELSE "+" \o fixed2(hundredths)

three_digits(n) ==
    IF n < 10 THEN "00" \o ToString(n)
    ELSE IF n < 100 THEN "0" \o ToString(n)
    ELSE ToString(n)

\* f"{n:,}"
RECURSIVE thousands(_)
thousands(n) ==
    IF n < 1000 THEN ToString(n)
    ELSE thousands(n \div 1000) \o "," \o three_digits(n % 1000)

upper_char(c) ==
    IF \E i \in 1..Len(LowerLetters) : LowerLetters[i] = c
    THEN UpperLetters[CHOOSE i \in 1..Len(LowerLetters) : LowerLetters[i] = c]
    ELSE c

\* str.upper()
upper(s) == [i \in 1..Len(s) |-> upper_char(s[i])]

conditions == <<"Sunny", "Cloudy", "Rainy", "Partly Cloudy", "Snowy", "Foggy">>

fetch_weather_data(city, draw, t) ==
    LET delay       == pick(draw, 80, 200)
        temperature == pick(draw, -5, 35)
        humidity    == pick(draw, 30, 90)
        wind_speed  == pick(draw, 0, 25)
    IN  [ status   |-> "success",
          source   |-> "weather_api",
          city     |-> city,
          data     |-> [ temperature |-> ToString(temperature) \o " C",
                         condition   |-> conditions[pick(draw, 1, Len(conditions))],
                         humidity    |-> ToString(humidity) \o "%",
                         wind_speed  |-> ToString(wind_speed) \o " km/h",
                         visibility  |-> ToString(pick(draw, 5, 20)) \o " km" ],
          metadata |-> [ fetch_time     |-> t,
                         api_delay      |-> fixed2(delay) \o "s",
                         data_freshness |-> "real-time" ] ]

headlines_of(topic) ==
    << "Breaking: Major developments in " \o topic \o " sector",
       "Analysis: The future of " \o topic \o " looks promising",
       "Expert opinion: " \o topic \o " trends to watch",
       "Market update: " \o topic \o " stocks show strong performance",
       "Innovation: New " \o topic \o " breakthrough announced" >>

fetch_news_data(topic, draw, t) ==
    LET delay     == pick(draw, 100, 250)
        headlines == headlines_of(topic)
    IN  [ status   |-> "success",
          source   |-> "news_api",
          topic    |-> topic,
          data     |-> [ headlines      |-> pick(draw, SubSeq(headlines, 1, 3),
                                                       SubSeq(headlines, 3, 5)),
                         total_articles |-> pick(draw, 50, 500),
                         trending_score |-> pick(draw, 60, 100),
                         sentiment      |-> pick(draw, "positive", "mixed") ],
          metadata |-> [ fetch_time    |-> t,
                         api_delay     |-> fixed2(delay) \o "s",
                         sources_count |-> pick(draw, 10, 50) ] ]

fetch_stock_data(symbol, draw, t) ==
    LET delay          == pick(draw, 50, 180)
        base_price     == pick(draw, 5000, 50000)
        change         == pick(draw, -2000, 2000)
        change_percent == IF change < 0
                          THEN 0 - ((0 - change) * 10000) \div base_price
                          ELSE (change * 10000) \div base_price
        volume         == pick(draw, 100000, 10000000)
    IN  [ status   |-> "success",
          source   |-> "financial_api",
          symbol   |-> upper(symbol),
          data     |-> [ current_price  |-> "$" \o fixed2(base_price),
                         change         |-> signed_fixed2(change),
                         change_percent |-> signed_fixed2(change_percent) \o "%",
                         volume         |-> thousands(volume),
                         market_cap     |-> "$" \o ToString(pick(draw, 1, 100)) \o "B",
                         pe_ratio       |-> ToString(pick(draw, 10, 30)) \o ".0" ],
          metadata |-> [ fetch_time    |-> t,
                         api_delay     |-> fixed2(delay) \o "s",
                         market_status |-> pick(draw, "open", "closed") ] ]

\* the three LlmAgents of create_data_aggregator, with the tool each calls
AggregatorAgents_shared_key ==
    << [name |-> "weather_agent", tool |-> "fetch_weather_data",
        output_key |-> "weather_info"],
       [name |-> "news_agent", tool |-> "fetch_news_data",
        output_key |-> "weather_info"],
       [name |-> "stock_agent", tool |-> "fetch_stock_data",
        output_key |-> "stock_info"] >>

AggregatorAgents ==
    << [name |-> "weather_agent", tool |-> "fetch_weather_data",
        output_key |-> "weather_info"],
       [name |-> "news_agent", tool |-> "fetch_news_data",
        output_key |-> "news_info"],
       [name |-> "stock_agent", tool |-> "fetch_stock_data",
        output_key |-> "stock_info"] >>

AggregatorSubAgents_without_stock == SubSeq(AggregatorAgents, 1, 2)

\* sub_agents=[weather_agent, news_agent, stock_agent]
AggregatorSubAgents == AggregatorAgents

\* create_data_aggregator(): what it returns or raises, and the agents it
\* has built by then
create_data_aggregator(config_valid_) ==
    IF ~config_valid_
    THEN [ status |-> "raised", exception |-> "ValueError", agents_built |-> <<>> ]
    ELSE [ status |-> "built", kind |-> "parallel",
           name |-> "data_aggregator",
           agents_built |-> AggregatorAgents, sub_agents |-> AggregatorSubAgents ]

\* create_weather_agent(): the single agent of the basic sample
WeatherAgents ==
    << [name |-> "weather_assistant", tool |-> "weather_tools",
        output_key |-> "response"] >>

create_weather_agent(config_valid_) ==
    IF ~config_valid_
    THEN [ status |-> "raised", exception |-> "ValueError", agents_built |-> <<>> ]
    ELSE [ status |-> "built", kind |-> "single",
           name |-> "weather_assistant",
           agents_built |-> WeatherAgents, sub_agents |-> WeatherAgents ]

\* the city, topic and symbol each example query names
example_queries ==
    << [ city |-> "Tokyo",    topic |-> "technology", symbol |-> <<"A","A","P","L">> ],
       [ city |-> "London",   topic |-> "business",   symbol |-> <<"G","O","O","G","L">> ],
       [ city |-> "New York", topic |-> "sports",     symbol |-> <<"M","S","F","T">> ],
       [ city |-> "Paris",    topic |-> "health",     symbol |-> <<"T","S","L","A">> ] >>

\* the branch's agent calls its one tool on its part of the query
apply_fetch_tool(tool, query, draw, t) ==
    IF tool = "fetch_weather_data" THEN fetch_weather_data(query.city, draw, t)
    ELSE IF tool = "fetch_news_data" THEN fetch_news_data(query.topic, draw, t)
    ELSE fetch_stock_data(query.symbol, draw, t)

\* the error result that stands for a branch that failed
branch_error(agent, t) ==
    [ status |-> "error", source |-> agent.name,
      error |-> "branch failed", metadata |-> [ fetch_time |-> t ] ]

----------------------------------------------------------------------------
(* The callers *)

example_data ==
    <<
      <<"C","u","s","t","o","m","e","r"," ","f","e","e","d","b","a","c",
        "k"," ","i","n","d","i","c","a","t","e","s"," ","h","i","g","h",
        " ","s","a","t","i","s","f","a","c","t","i","o","n"," ","w","i",
        "t","h"," ","o","u","r"," ","n","e","w"," ","p","r","o","d","u",
        "c","t"," ","l","a","u","n","c","h",".">>,
      <<"S","a","l","e","s"," ","r","e","v","e","n","u","e"," ","i","n",
        "c","r","e","a","s","e","d"," ","b","y"," ","2","5","%"," ","t",
        "h","i","s"," ","q","u","a","r","t","e","r"," ","c","o","m","p",
        "a","r","e","d"," ","t","o"," ","l","a","s","t"," ","y","e","a",
        "r",".">>,
      <<"T","h","e"," ","d","e","v","e","l","o","p","m","e","n","t"," ",
        "t","e","a","m"," ","s","u","c","c","e","s","s","f","u","l","l",
        "y"," ","d","e","l","i","v","e","r","e","d"," ","t","h","e"," ",
        "n","e","w"," ","f","e","a","t","u","r","e"," ","o","n"," ","s",
        "c","h","e","d","u","l","e",".">>,
      <<"S","h","o","r","t"," ","t","e","x","t">>,
      <<"O","u","r"," ","b","u","s","i","n","e","s","s"," ","s","t","r",
        "a","t","e","g","y"," ","f","o","c","u","s","e","s"," ","o","n",
        " ","c","u","s","t","o","m","e","r","-","c","e","n","t","r","i",
        "c"," ","p","r","o","d","u","c","t"," ","d","e","v","e","l","o",
        "p","m","e","n","t"," ","a","n","d"," ","i","n","n","o","v","a",
        "t","i","o","n",".">>
    >>

\* lines the interactive loop reads
InputLines ==
    { <<"q","u","i","t">>,
      <<" ","E","x","i","t","\n">>,
      <<"q">>,
      <<>>,
      <<" "," ">>,
      <<"S","h","o","r","t"," ","t","e","x","t">>,
      <<"S","a","l","e","s"," ","2",".","5"," ">> }

\* a loop that does not know the short form
QuitWords_without_q == { <<"q","u","i","t">>, <<"e","x","i","t">> }

QuitWords == { <<"q","u","i","t">>, <<"e","x","i","t">>, <<"q">> }

\* the interactive loop reads at most MaxLines lines
MaxLines == 2

DemoCallers == {"demo_data_pipeline", "demo_parallel_processing"}
InteractiveCallers == {"interactive_pipeline", "interactive_mode"}
Callers == DemoCallers \cup InteractiveCallers

\* the runner scripts with a main()
Scripts == {"01_basic_llm_agent", "02_sequential_workflow"}

\* answers to the menu prompt
Choices ==
    { <<"1">>, <<"2">>, <<"3">>, <<" ","3","\n">>, <<"4">>, <<>>, <<"1","2">> }

\* the demo that run_examples() of the script calls
run_examples(script_) ==
    IF script_ = "02_sequential_workflow" THEN "demo_data_pipeline"
    ELSE "demo_weather_assistant"

\* the interactive loop of the script
interactive_function(script_) ==
    IF script_ = "02_sequential_workflow" THEN "interactive_pipeline"
    ELSE "interactive_mode"

\* main() with "3" answering the interactive loop first
main_calls_interactive_first(script_, choice_) ==
    IF choice_ = <<"1">> THEN << run_examples(script_) >>
    ELSE IF choice_ = <<"2">> THEN << interactive_function(script_) >>
    ELSE IF choice_ = <<"3">>
    THEN << interactive_function(script_), run_examples(script_) >>
    ELSE << run_examples(script_) >>

\* the functions main() calls for a choice, in order
main_calls(script_, choice_) ==
    IF choice_ = <<"1">> THEN << run_examples(script_) >>
    ELSE IF choice_ = <<"2">> THEN << interactive_function(script_) >>
    ELSE IF choice_ = <<"3">>
    THEN << run_examples(script_), interactive_function(script_) >>
    ELSE << run_examples(script_) >>

\* the create_...() each caller calls
create_for(caller_, config_valid_) ==
    IF caller_ \in {"demo_data_pipeline", "interactive_pipeline"}
    THEN create_data_pipeline(config_valid_)
    ELSE IF caller_ = "demo_parallel_processing"
    THEN create_data_aggregator(config_valid_)
    ELSE create_weather_agent(config_valid_)

\* except Exception as e: print(...); return
construction_error_handler_falls_through(caller_) == "create_session"

construction_error_handler(caller_) == "returned"

app_name(caller_) ==
    IF caller_ = "demo_data_pipeline" THEN "data_pipeline_demo"
    ELSE IF caller_ = "demo_parallel_processing" THEN "parallel_aggregator_demo"
    ELSE IF caller_ = "interactive_pipeline" THEN "interactive_pipeline"
    ELSE "interactive_weather"

\* the number of queries the demo issues
demo_length(caller_) ==
    IF caller_ = "demo_data_pipeline" THEN Len(example_data) ELSE Len(example_queries)

\* the text of the demo's i-th query, for the pipeline
demo_text(caller_, i) ==
    IF caller_ = "demo_data_pipeline" THEN example_data[i] ELSE <<>>

\* either one of the callers is run on its own, or the main() of a runner
\* script is
InitRun ==
    /\ mode = "run"
    /\ script \in {"none"} \cup Scripts
    /\ IF script = "none"
       THEN caller \in Callers /\ pc = "start"
       ELSE caller = "none" /\ pc = "main"
    /\ config_valid \in BOOLEAN
    /\ choice = <<>>
    /\ runs = <<>>
    /\ input_text = <<>>
    /\ now = 0
    /\ extraction_result = NoResult
    /\ extraction_again = NoResult
    /\ validator_input = NoResult
    /\ validation_result = NoResult
    /\ validation_again = NoResult
    /\ formatter_input = NoResult
    /\ final_result = NoResult
    /\ final_again = NoResult
    /\ construction = NoResult
    /\ session_manager = "none"
    /\ runner = "none"
    /\ query_no = 0
    /\ lines_read = 0
    /\ composite_state = "pending"
    /\ steps_run = <<>>
    /\ branch = <<>>
    /\ context = <<>>
    /\ writes = <<>>
    /\ response = NoResult
    /\ line_read = <<>>
    /\ user_input = <<>>
    /\ caught = "none"

unusedToolVars == <<extraction_result, extraction_again, validation_result,
                    validation_again, final_result, final_again>>

queryVars == <<composite_state, steps_run, branch, context, writes, response>>

\* try: pipeline = create_data_pipeline() except Exception: ...; return
CreateComposite ==
    /\ mode = "run" /\ pc = "start" /\ caller \in Callers
    /\ construction' = create_for(caller, config_valid)
    /\ pc' = IF construction'.status = "raised"
             THEN construction_error_handler(caller)
             ELSE "create_session"
    /\ UNCHANGED <<mainVars, loopVars, mode, toolVars, caller, config_valid, session_manager, runner,
                   query_no, lines_read, queryVars>>

\* session_manager = ADKSessionManager(app_name=...)
CreateSessionManager ==
    /\ mode = "run" /\ pc = "create_session"
    /\ session_manager' = app_name(caller)
    /\ pc' = "create_runner"
    /\ UNCHANGED <<mainVars, loopVars, mode, toolVars, caller, config_valid, construction, runner,
                   query_no, lines_read, queryVars>>

\* session_manager.create_runner(pipeline)
CreateRunner ==
    /\ mode = "run" /\ pc = "create_runner"
    /\ runner' = "created"
    /\ pc' = "loop"
    /\ UNCHANGED <<mainVars, loopVars, mode, toolVars, caller, config_valid, construction,
                   session_manager, query_no, lines_read, queryVars>>

\* session_manager.run_query(...) is entered with `text` as the data
EnterRunQuery(text) ==
    /\ pc' = "in_query"
    /\ query_no' = query_no + 1
    /\ input_text' = text
    /\ composite_state' = "pending"
    /\ steps_run' = <<>>
    /\ branch' = <<>>
    /\ context' = <<>>
    /\ writes' = <<>>
    /\ response' = NoResult
    /\ validator_input' = NoResult
    /\ formatter_input' = NoResult

\* for i, data in enumerate(example_data, 1): run_query(...)
DemoIssueQuery ==
    /\ mode = "run" /\ pc = "loop" /\ caller \in DemoCallers
    /\ query_no < demo_length(caller)
    /\ EnterRunQuery(demo_text(caller, query_no + 1))
    /\ caught' = "none"
    /\ UNCHANGED <<mainVars, line_read, user_input, mode, now, unusedToolVars, caller, config_valid, construction,
                   session_manager, runner, lines_read>>

\* the loop over the examples is over
DemoFinish ==
    /\ mode = "run" /\ pc = "loop" /\ caller \in DemoCallers
    /\ query_no = demo_length(caller)
    /\ pc' = "returned"
    /\ UNCHANGED <<mainVars, loopVars, mode, toolVars, caller, config_valid, construction,
                   session_manager, runner, query_no, lines_read, queryVars>>

\* user_input = input(...).strip(), then quit / skip / run_query
ReadLine ==
    /\ mode = "run" /\ pc = "loop" /\ caller \in InteractiveCallers
    /\ lines_read < MaxLines
    /\ lines_read' = lines_read + 1
    /\ caught' = "none"
    /\ \E line \in InputLines :
          /\ line_read' = line
          /\ user_input' = strip_whitespace(line)
          /\ IF lower(user_input') \in QuitWords
             THEN /\ pc' = "returned"
                  /\ UNCHANGED <<toolVars, query_no, queryVars>>
             ELSE IF user_input' = <<>>
             THEN /\ pc' = "loop"
                  /\ UNCHANGED <<toolVars, query_no, queryVars>>
             ELSE /\ EnterRunQuery(user_input')
                  /\ UNCHANGED <<now, unusedToolVars>>
    /\ UNCHANGED <<mainVars, mode, caller, config_valid, construction,
                   session_manager, runner>>

\* input() raises (the input has ended): except Exception prints the error
\* and the loop goes on
InputRaises ==
    /\ mode = "run" /\ pc = "loop" /\ caller \in InteractiveCallers
    /\ caught' = "Exception"
    /\ pc' = "loop"
    /\ UNCHANGED <<mainVars, line_read, user_input, mode, toolVars, caller,
                   config_valid, construction, session_manager, runner,
                   query_no, lines_read, queryVars>>

\* except KeyboardInterrupt: break, at the prompt or inside run_query
KeyboardInterrupt ==
    /\ mode = "run" /\ pc \in {"loop", "in_query"}
    /\ caller \in InteractiveCallers
    /\ caught' = "KeyboardInterrupt"
    /\ pc' = "returned"
    /\ UNCHANGED <<mainVars, line_read, user_input, mode, toolVars, caller,
                   config_valid, construction, session_manager, runner,
                   query_no, lines_read, queryVars>>

\* run_query raises; the caller's except Exception prints the error and the
\* loop goes on
RunQueryRaises ==
    /\ mode = "run" /\ pc = "in_query" /\ composite_state = "pending"
    /\ caught' = "Exception"
    /\ pc' = "loop"
    /\ UNCHANGED <<mainVars, line_read, user_input, mode, toolVars, caller,
                   config_valid, construction, session_manager, runner,
                   query_no, lines_read, queryVars>>

\* the next agent of the sequence calls its tool on `arg` and stores the
\* result under its output key
StepWith(agent, arg, last) ==
    /\ context' = store(context, agent.output_key, apply_tool(agent.tool, arg, now))
    /\ writes' = Append(writes, <<agent.name, agent.output_key>>)
    /\ steps_run' = Append(steps_run, agent.name)
    /\ composite_state' = IF last THEN "completed" ELSE "running"
    /\ now' = now + 1
    /\ validator_input' = IF agent.tool = "validate_data" THEN arg ELSE validator_input
    /\ formatter_input' = IF agent.tool = "format_data" THEN arg ELSE formatter_input

\* the sequence runs its sub-agents in list order, each on what the agent
\* before it stored (or, for the first, on the query's text)
PipelineStep ==
    /\ mode = "run" /\ pc = "in_query"
    /\ construction.kind = "sequential"
    /\ composite_state \in {"pending", "running"}
    /\ LET sub_agents == construction.sub_agents
           i          == Len(steps_run) + 1
           agent      == sub_agents[i]
           last       == i = Len(sub_agents)
       IN  \/ /\ i = 1
              /\ StepWith(agent, input_text, last)
           \/ /\ i > 1
              /\ StepWith(agent, context[sub_agents[i - 1].output_key], last)
           \/ /\ i > 1
              /\ inner_key(agent.tool) \in DOMAIN context[sub_agents[i - 1].output_key]
              /\ StepWith(agent,
                          context[sub_agents[i - 1].output_key][inner_key(agent.tool)],
                          last)
    /\ UNCHANGED <<mainVars, loopVars, mode, pc, input_text, unusedToolVars, caller, config_valid,
                   construction, session_manager, runner, query_no, lines_read,
                   branch, response>>

\* the parallel composite dispatches every sub-agent against the query
ParallelDispatch ==
    /\ mode = "run" /\ pc = "in_query"
    /\ construction.kind = "parallel"
    /\ composite_state = "pending"
    /\ branch' = [i \in 1..Len(construction.sub_agents) |->
                    [state |-> "running", result |-> NoResult]]
    /\ composite_state' = "running"
    /\ UNCHANGED <<mainVars, loopVars, mode, pc, toolVars, caller, config_valid, construction,
                   session_manager, runner, query_no, lines_read, steps_run,
                   context, writes, response>>

\* a branch's agent finishes its tool call; the branches finish in any order
BranchCompletes ==
    /\ mode = "run" /\ pc = "in_query"
    /\ construction.kind = "parallel"
    /\ composite_state = "running"
    /\ \E i \in DOMAIN branch, draw \in RandomDraws :
          /\ branch[i].state = "running"
          /\ branch' = [branch EXCEPT ![i] =
                [state  |-> "completed",
                 result |-> apply_fetch_tool(construction.sub_agents[i].tool,
                                             example_queries[query_no], draw, now)]]
          /\ steps_run' = Append(steps_run, construction.sub_agents[i].name)
    /\ now' = now + 1
    /\ UNCHANGED <<mainVars, loopVars, mode, pc, input_text, extraction_result, extraction_again,
                   validator_input, validation_result, validation_again,
                   formatter_input, final_result, final_again, caller,
                   config_valid, construction, session_manager, runner, query_no,
                   lines_read, composite_state, context, writes, response>>

\* a branch fails terminally: an error result stands for it
BranchFails ==
    /\ mode = "run" /\ pc = "in_query"
    /\ construction.kind = "parallel"
    /\ composite_state = "running"
    /\ \E i \in DOMAIN branch :
          /\ branch[i].state = "running"
          /\ branch' = [branch EXCEPT ![i] =
                [state  |-> "failed",
                 result |-> branch_error(construction.sub_agents[i], now)]]
          /\ steps_run' = Append(steps_run, construction.sub_agents[i].name)
    /\ now' = now + 1
    /\ UNCHANGED <<mainVars, loopVars, mode, pc, input_text, extraction_result, extraction_again,
                   validator_input, validation_result, validation_again,
                   formatter_input, final_result, final_again, caller,
                   config_valid, construction, session_manager, runner, query_no,
                   lines_read, composite_state, context, writes, response>>

\* the mapping with the results of branches 1..n copied in, in list order
RECURSIVE merge_branches(_, _, _)
merge_branches(sub_agents, branch_, n) ==
    IF n = 0 THEN <<>>
    ELSE store(merge_branches(sub_agents, branch_, n - 1),
               sub_agents[n].output_key, branch_[n].result)

\* the join: every branch has completed or failed, and the results are
\* merged in the order of the sub-agent list
ParallelJoin ==
    /\ mode = "run" /\ pc = "in_query"
    /\ construction.kind = "parallel"
    /\ composite_state = "running"
    /\ \A i \in DOMAIN branch : branch[i].state \in {"completed", "failed"}
    /\ context' = merge_branches(construction.sub_agents, branch, Len(branch))
    /\ writes' = [i \in 1..Len(branch) |->
                    <<construction.sub_agents[i].name,
                      construction.sub_agents[i].output_key>>]
    /\ composite_state' = "completed"
    /\ UNCHANGED <<mainVars, loopVars, mode, pc, toolVars, caller, config_valid, construction,
                   session_manager, runner, query_no, lines_read, steps_run,
                   branch, response>>

\* the single agent of the basic sample answers the query
SingleAgentTurn ==
    /\ mode = "run" /\ pc = "in_query"
    /\ construction.kind = "single"
    /\ composite_state = "pending"
    /\ LET agent == construction.sub_agents[1]
       IN  /\ context' = store(context, agent.output_key,
                               [status |-> "success", text |-> input_text])
           /\ writes' = Append(writes, <<agent.name, agent.output_key>>)
           /\ steps_run' = Append(steps_run, agent.name)
    /\ composite_state' = "completed"
    /\ UNCHANGED <<mainVars, loopVars, mode, pc, toolVars, caller, config_valid, construction,
                   session_manager, runner, query_no, lines_read, branch, response>>

\* run_query returns the result mapping of the composite to the caller
RunQueryReturns ==
    /\ mode = "run" /\ pc = "in_query" /\ composite_state = "completed"
    /\ response' = context
    /\ pc' = "loop"
    /\ UNCHANGED <<mainVars, loopVars, mode, toolVars, caller, config_valid, construction,
                   session_manager, runner, query_no, lines_read,
                   composite_state, steps_run, branch, context, writes>>

\* if not validate_config(): print(...); return -- else the menu is printed
MainValidateConfig ==
    /\ mode = "run" /\ pc = "main"
    /\ pc' = IF config_valid THEN "menu" ELSE "main_returned"
    /\ UNCHANGED <<mainVars, loopVars, mode, toolVars, caller, config_valid,
                   construction, session_manager, runner, query_no, lines_read,
                   queryVars>>

\* main() calls a function: the function starts with fresh locals
Call(function) ==
    /\ caller' = function
    /\ runs' = Append(runs, function)
    /\ pc' = "start"
    /\ construction' = NoResult
    /\ session_manager' = "none"
    /\ runner' = "none"
    /\ query_no' = 0
    /\ lines_read' = 0
    /\ composite_state' = "pending"
    /\ steps_run' = <<>>
    /\ branch' = <<>>
    /\ context' = <<>>
    /\ writes' = <<>>
    /\ response' = NoResult
    /\ input_text' = <<>>
    /\ validator_input' = NoResult
    /\ formatter_input' = NoResult
    /\ line_read' = <<>>
    /\ user_input' = <<>>
    /\ caught' = "none"
    /\ UNCHANGED <<mode, now, unusedToolVars, config_valid, script>>

\* choice = input(...).strip(), and the first call of the chosen branch
ReadChoice ==
    /\ mode = "run" /\ pc = "menu"
    /\ \E line \in Choices :
          /\ choice' = strip_whitespace(line)
          /\ Call(main_calls(script, choice')[1])

\* the function main() called has returned: main() calls the next one of
\* the chosen branch, or returns
CalleeReturns ==
    /\ mode = "run" /\ pc = "returned" /\ script # "none"
    /\ LET calls == main_calls(script, choice)
       IN  IF Len(runs) < Len(calls)
           THEN /\ Call(calls[Len(runs) + 1])
                /\ UNCHANGED choice
           ELSE /\ pc' = "main_returned"
                /\ UNCHANGED <<mainVars, loopVars, mode, toolVars, caller,
                               config_valid, construction, session_manager,
                               runner, query_no, lines_read, queryVars>>

\* a keyboard interrupt at the menu prompt, or in a callee where nothing
\* catches it, ends in main()'s except KeyboardInterrupt
MainKeyboardInterrupt ==
    /\ mode = "run" /\ script # "none"
    /\ \/ pc \in {"menu", "start", "create_session", "create_runner"}
       \/ pc \in {"loop", "in_query"} /\ caller \notin InteractiveCallers
    /\ caught' = "KeyboardInterrupt"
    /\ pc' = "main_returned"
    /\ UNCHANGED <<mainVars, line_read, user_input, mode, toolVars, caller,
                   config_valid, construction, session_manager, runner,
                   query_no, lines_read, queryVars>>

\* demo_weather_assistant() runs and returns
DemoWeatherAssistant ==
    /\ mode = "run" /\ pc = "start" /\ caller = "demo_weather_assistant"
    /\ pc' = "returned"
    /\ UNCHANGED <<mainVars, loopVars, mode, toolVars, caller, config_valid,
                   construction, session_manager, runner, query_no, lines_read,
                   queryVars>>

Next ==
    \/ MainValidateConfig
    \/ ReadChoice
    \/ CalleeReturns
    \/ MainKeyboardInterrupt
    \/ DemoWeatherAssistant
    \/ CreateComposite
    \/ CreateSessionManager
    \/ CreateRunner
    \/ DemoIssueQuery
    \/ DemoFinish
    \/ ReadLine
    \/ InputRaises
    \/ KeyboardInterrupt
    \/ RunQueryRaises
    \/ PipelineStep
    \/ ParallelDispatch
    \/ BranchCompletes
    \/ BranchFails
    \/ ParallelJoin
    \/ SingleAgentTurn
    \/ RunQueryReturns

Spec == InitRun /\ [][Next]_vars

----------------------------------------------------------------------------
(* Claims about the composites and their callers *)

Built == mode = "run" /\ has_status(construction, "built")

SequentialBuilt == Built /\ construction.kind = "sequential"

ParallelBuilt == Built /\ construction.kind = "parallel"

\* run_query has handed a result mapping back to the caller
Responded == mode = "run" /\ DOMAIN response # {"status"}

\* the result the i-th step of the running query has stored
StepResult(i) == context[construction.sub_agents[i].output_key]

SubAgentNames == [i \in 1..Len(construction.sub_agents) |-> construction.sub_agents[i].name]

OutputKeysUpTo(n) == { construction.sub_agents[i].output_key : i \in 1..n }

StepsWithStatus(status) ==
    { i \in 1..Len(construction.sub_agents) :
        has_status(response[construction.sub_agents[i].output_key], status) }

\* the steps whose result in the returned mapping carries an error field
StepsWithErrorField ==
    { i \in 1..Len(construction.sub_agents) :
        "error" \in DOMAIN response[construction.sub_agents[i].output_key] }

\* the pipeline has returned, and step i is the first whose status is error
FirstErrorAt(i) ==
    /\ SequentialBuilt /\ Responded
    /\ i \in StepsWithStatus("error")
    /\ \A j \in StepsWithStatus("error") : i <= j

C6_FailFast ==
    (mode = "run" /\ has_status(construction, "raised")) =>
        /\ construction.agents_built = <<>>
        /\ session_manager = "none"
        /\ runner = "none"
        /\ query_no = 0
        /\ pc = "returned"

\* C6 witness: construction has failed in a caller, which has returned
C6_Witness ==
    /\ mode = "run" /\ has_status(construction, "raised")
    /\ ~config_valid
    /\ pc = "returned"
    /\ caller = "interactive_pipeline"

\* every agent the aggregator was built with has a branch that has
\* completed or failed
AllBranchesTerminal ==
    \A a \in 1..Len(construction.agents_built) :
        \E i \in DOMAIN branch :
            /\ construction.sub_agents[i].name = construction.agents_built[a].name
            /\ branch[i].state \in {"completed", "failed"}

\* C7: the merged result of the parallel aggregator is never observable by
\* the caller before every branch has completed or failed terminally, under
\* every interleaving of branch completions.
C7_ObservedOnlyAfterJoin ==
    (ParallelBuilt /\ Responded) =>
        /\ AllBranchesTerminal
        /\ composite_state = "completed"
        /\ response = context

\* C7 witness: the caller holds a merged result whose branches finished in
\* an order other than the list order, one of them by failing
C7_Witness ==
    /\ ParallelBuilt /\ Responded
    /\ steps_run = <<"stock_agent", "weather_agent", "news_agent">>
    /\ branch[2].state = "failed"
    /\ branch[1].state = "completed"

\* C8: the merged result of a parallel composite with N branches has
\* exactly N keys, one per configured output key, whatever the order in
\* which the branches complete; for the sample aggregator these are
\* weather_info, news_info and stock_info.
C8_MergedHasOneKeyPerBranch ==
    (ParallelBuilt /\ Responded) =>
        /\ Cardinality(DOMAIN response) = Len(construction.agents_built)
        /\ DOMAIN response =
              { construction.agents_built[i].output_key :
                    i \in 1..Len(construction.agents_built) }
        /\ DOMAIN response = {"weather_info", "news_info", "stock_info"}

\* C8 witness: a merged result whose branches completed in reverse list
\* order
C8_Witness ==
    /\ ParallelBuilt /\ Responded
    /\ steps_run = <<"stock_agent", "news_agent", "weather_agent">>
    /\ Cardinality(DOMAIN response) = 3

\* C9: output keys and agent names within one composite are pairwise
\* distinct, so no two agents of the same composite ever write the same key
\* of the result mapping.
C9_KeysWrittenByOneAgent ==
    Built =>
        /\ \A i, j \in 1..Len(construction.agents_built) :
              i # j =>
                  /\ construction.agents_built[i].output_key
                        # construction.agents_built[j].output_key
                  /\ construction.agents_built[i].name
                        # construction.agents_built[j].name
        /\ \A i, j \in 1..Len(writes) :
              writes[i][2] = writes[j][2] => writes[i][1] = writes[j][1]

\* C9 witness: the three agents of the pipeline have each written their key
C9_Witness ==
    /\ SequentialBuilt
    /\ Len(writes) = 3
    /\ DOMAIN context = {"extraction_result", "validation_result", "final_result"}

\* the caller is an interactive loop whose setup has succeeded
InLoop ==
    /\ mode = "run"
    /\ caller \in {"interactive_mode", "interactive_pipeline"}
    /\ pc \in {"loop", "in_query"}

\* the step reads a line
LineIsRead == lines_read' = lines_read + 1

\* the line just read, stripped and lower-cased, is a word that quits
QuitLineRead ==
    /\ LineIsRead
    /\ lower(strip_whitespace(line_read')) \in
          { <<"q","u","i","t">>, <<"e","x","i","t">>, <<"q">> }

\* the outcome of a step of the interactive loop
LoopStep ==
    /\ (InLoop /\ QuitLineRead) =>
          pc' = "returned" /\ query_no' = query_no
    /\ (InLoop /\ LineIsRead /\ ~QuitLineRead /\ strip_whitespace(line_read') = <<>>) =>
          pc' = "loop" /\ query_no' = query_no
    /\ (InLoop /\ LineIsRead /\ ~QuitLineRead /\ strip_whitespace(line_read') # <<>>) =>
          pc' = "in_query" /\ query_no' = query_no + 1
    /\ (InLoop /\ ~LineIsRead) => query_no' = query_no
    /\ (InLoop /\ caught' = "Exception" /\ caught # "Exception") => pc' = "loop"
    /\ (InLoop /\ pc' \notin {"loop", "in_query"}) =>
          /\ pc' = "returned"
          /\ QuitLineRead \/ (caught' = "KeyboardInterrupt" /\ ~LineIsRead)

\* C11: in the interactive loops, once setup has succeeded, every line read
\* leads to exactly one of three outcomes: the loop ends when the stripped,
\* lower-cased line is 'quit', 'exit' or 'q'; an empty line is skipped
\* without a run_query call; any other line causes exactly one run_query
\* call.  An exception raised by run_query does not end the loop: the prompt
\* is reached next.  The only other way the loop ends is a keyboard
\* interrupt.
C11_LoopOutcomes == [][LoopStep]_vars

\* C11 witness: the loop has read two lines: the first caused the one
\* run_query call, the second, ' Exit', ended the loop
C11_Witness ==
    /\ mode = "run" /\ caller = "interactive_pipeline"
    /\ pc = "returned"
    /\ lines_read = 2
    /\ query_no = 1
    /\ line_read = <<" ","E","x","i","t","\n">>
    /\ caught = "none"

\* C11 second case: run_query has raised and the loop is at its prompt
C11_PromptAfterException ==
    /\ InLoop /\ pc = "loop"
    /\ query_no = 1 /\ lines_read = 1
    /\ caught = "Exception"

\* the functions main() is to call for the choice, by the menu
ChosenRuns ==
    LET examples    == IF script = "02_sequential_workflow"
                       THEN "demo_data_pipeline" ELSE "demo_weather_assistant"
        interactive == IF script = "02_sequential_workflow"
                       THEN "interactive_pipeline" ELSE "interactive_mode"
    IN  IF choice = <<"1">> THEN <<examples>>
        ELSE IF choice = <<"2">> THEN <<interactive>>
        ELSE IF choice = <<"3">> THEN <<examples, interactive>>
        ELSE <<examples>>

C12_InvalidConfigReturned ==
    /\ mode = "run" /\ script = "01_basic_llm_agent"
    /\ ~config_valid
    /\ pc = "main_returned"

====
